---- MODULE Spec2Model ----
(***************************************************************************)
(* Model of cookie_defender_bowl.py: the bowl geometry, the cookie bodies, *)
(* the spawn/shake/clear handlers, the frame loop (_loop: autodrop, feed   *)
(* drain, physics step) and the Defender feed threads.                     *)
(*                                                                         *)
(* Arithmetic.  The program computes in IEEE doubles; the model computes   *)
(* in integers with fixed units:                                           *)
(*   length    1/10 pixel (dpx)          time   1 millisecond              *)
(*   velocity  dpx per second            ratios 1/1000 (permille)          *)
(*   angles    1/1000 of a turn                                            *)
(* Every product is kept below 2^31.  Quot rounds toward zero.             *)
(***************************************************************************)
EXTENDS Integers, Sequences, FiniteSets, TLC

VARIABLES
    cookies,        \* App.cookies: sequence of CookieBody records
    counts,         \* App.counts: colour -> number spawned (absent = not a key)
    status,         \* App.status label text (abstracted to a tag)
    auto_enabled,   \* App.auto_enabled
    auto_rate,      \* App.auto_rate, in 1/10 cookie per second
    auto_accum,     \* App._auto_accum, in 1/10000 cookie
    def_auto_drop,  \* App.def_auto_drop
    def_poll,       \* App.def_poll
    def_last_ids,   \* App._defender_last_ids
    def_pending,    \* App._defender_pending_colors
    def_last_error, \* App._defender_last_error ("" or "err")
    def_status,     \* App._defender_status_text (tag)
    def_total,      \* App._defender_total
    sim_t,          \* App._sim_t in ms, kept modulo WobblePeriod
    tpc,            \* feed threads: position of each thread
    tlocal,         \* feed threads: locals of _defender_sync_once
    ev,             \* observation: the handler that ran last
    obs             \* observation: counters kept for the properties

vars == <<cookies, counts, status, auto_enabled, auto_rate, auto_accum,
          def_auto_drop, def_poll, def_last_ids, def_pending, def_last_error,
          def_status, def_total, sim_t, tpc, tlocal, ev, obs>>

----------------------------------------------------------------------------
(* Program constants, in model units.                                      *)

COLORS == <<"green", "blue", "yellow", "red", "purple", "orange",
            "pink", "brown", "black", "white", "cyan", "magenta">>

GRAVITY_AIR == 17500
GRAVITY_WATER == 7200
BOWL_RESTITUTION == 450
COOKIE_RESTITUTION == 100
FRICTION_AIR == 985
FRICTION_WATER == 965
MAX_COOKIES == 260
SLEEP_SPEED == 220
SLEEP_FRAMES == 18
COLLISION_PASSES == 2
SUBSTEPS == 2
OVERFLOW_AT == 950
HARD_STOP_AT == 1100
WOBBLE_ACCEL == 1200
WOBBLE_DAMP == 100
MAX_DROPS_PER_TICK == 6
AUTO_SPAWN_CAP == 10
AUTO_RATE_MAX == 250
MAX_DT == 33
canvas_w == 7600
canvas_h == 5200
OPENING_MARGIN == 60
DISTURB_OVERLAP == 6

----------------------------------------------------------------------------
(* Integer helpers.                                                        *)

Max(a, b) == IF a >= b THEN a ELSE b
Min(a, b) == IF a <= b THEN a ELSE b

\* a / b rounded toward zero (b > 0).
Quot(a, b) == IF a >= 0 THEN a \div b ELSE -((-a) \div b)

\* a * b / c without forming a * b (a, b, c >= 0, c > 0, (c-1) * b < 2^31).
MulDiv(a, b, c) == (a \div c) * b + ((a % c) * b) \div c

RECURSIVE SqrtBits(_, _, _)
SqrtBits(n, r, bit) ==
    IF bit = 0 THEN r
    ELSE IF (r + bit) * (r + bit) <= n
         THEN SqrtBits(n, r + bit, bit \div 2)
         ELSE SqrtBits(n, r, bit \div 2)

\* math.sqrt on a non-negative integer below 2^31: floor of the root.
ISqrt(n) == SqrtBits(n, 0, 32768)

\* math.hypot
Hypot(x, y) == ISqrt(x * x + y * y)

\* clamp(v, lo, hi): the comparisons in the order of the code.
clamp(v, lo, hi) == IF v < lo THEN lo ELSE IF v > hi THEN hi ELSE v

\* math.sin of an angle in 1/1000 turn, in permille (Bhaskara's rational form
\* on each half turn; exact at 0, 1/4, 1/2, 3/4 turn).
SinHalf(m) == (16000 * (m * (500 - m))) \div (1250000 - 4 * (m * (500 - m)))
Sin1000(mt) ==
    LET m == mt % 1000
    IN  IF m <= 500 THEN SinHalf(m) ELSE -SinHalf(m - 500)

----------------------------------------------------------------------------
(* App.__init__: the geometry the program constructs.                      *)

bowl_cx == (canvas_w * 52) \div 100
bowl_cy == (canvas_h * 67) \div 100
bowl_a == (canvas_w * 235) \div 1000
bowl_b == (canvas_h * 295) \div 1000
rim_y == (canvas_h * 30) \div 100
water_y == rim_y + (bowl_b * 20) \div 100

----------------------------------------------------------------------------
(* EllipseBowlCollider                                                     *)

\* _recalc_rim: <<rim_left, rim_right>>.  t <= 0 iff dy^2 >= b^2.
RecalcRim ==
    LET dy == rim_y - bowl_cy
    IN  IF dy * dy >= bowl_b * bowl_b
        THEN <<bowl_cx - (bowl_a * 5) \div 100, bowl_cx + (bowl_a * 5) \div 100>>
        ELSE LET dx == (bowl_a * ISqrt(bowl_b * bowl_b - dy * dy)) \div bowl_b
             IN  <<bowl_cx - dx, bowl_cx + dx>>

rim_left == RecalcRim[1]
rim_right == RecalcRim[2]

\* is_inside_point, for a point given in 1/100 dpx.
is_inside_point(x, y) ==
    LET dx == Quot((x - bowl_cx * 100) * 10, bowl_a)
        dy == Quot((y - bowl_cy * 100) * 10, bowl_b)
    IN  dx * dx + dy * dy <= 1000000 /\ y >= rim_y * 100

SAMPLES_X == 140
SAMPLES_Y == 180

\* _recalc_area: the midpoint grid over [cx-a, cx+a] x [rim_y, cy+b].
RecalcArea ==
    LET x0 == bowl_cx - bowl_a
        x1 == bowl_cx + bowl_a
        y0 == rim_y
        y1 == bowl_cy + bowl_b
        inside == Cardinality({p \in (0 .. SAMPLES_X - 1) \X (0 .. SAMPLES_Y - 1) :
                      is_inside_point(
                          x0 * 100 + ((2 * p[1] + 1) * (x1 - x0) * 100) \div (2 * SAMPLES_X),
                          y0 * 100 + ((2 * p[2] + 1) * (y1 - y0) * 100) \div (2 * SAMPLES_Y))})
        rect_area == (x1 - x0) * (y1 - y0)
    IN  Max(1, MulDiv(rect_area, inside, SAMPLES_X * SAMPLES_Y))

\* bowl_area, in dpx^2 (computed once, at construction).
bowl_area == RecalcArea

\* opening_clamp_x
opening_clamp_x(x, r) ==
    clamp(x, rim_left + r + OPENING_MARGIN, rim_right - r - OPENING_MARGIN)

\* collide_cookie
collide_cookie(c) ==
    IF c.y * 10 < rim_y * 10 - c.r * 6
    THEN [c EXCEPT !.x = opening_clamp_x(c.x, c.r)]
    ELSE
      LET a == Max(50, bowl_a - c.r)
          b == Max(50, bowl_b - c.r)
          dx == c.x - bowl_cx
          dy == c.y - bowl_cy
          ex == Quot(dx * 1000, a)
          ey == Quot(dy * 1000, b)
          s2 == ex * ex + ey * ey
      IN  IF s2 <= 1000000
          THEN IF c.y < rim_y + c.r
               THEN [c EXCEPT !.x = opening_clamp_x(c.x, c.r)]
               ELSE c
          ELSE
            LET s == ISqrt(s2)
                px == bowl_cx + Quot(dx * 1000, s)
                py == bowl_cy + Quot(dy * 1000, s)
                nx0 == Quot(ex * 1000, a)
                ny0 == Quot(ey * 1000, b)
                nlen == Hypot(nx0, ny0)
            IN  IF nlen = 0
                THEN [c EXCEPT !.x = px, !.y = py]
                ELSE
                  LET nx == Quot(nx0 * 1000, nlen)
                      ny == Quot(ny0 * 1000, nlen)
                      vdotn == Quot(c.vx * nx + c.vy * ny, 1000)
                      rvx == c.vx - Quot((1000 + BOWL_RESTITUTION) * Quot(vdotn * nx, 1000), 1000)
                      rvy == c.vy - Quot((1000 + BOWL_RESTITUTION) * Quot(vdotn * ny, 1000), 1000)
                      d == [c EXCEPT !.x = px, !.y = py,
                                     !.vx = Quot(rvx * 990, 1000),
                                     !.vy = Quot(rvy * 995, 1000)]
                  IN  IF d.y < rim_y + d.r
                      THEN [d EXCEPT !.x = opening_clamp_x(d.x, d.r)]
                      ELSE d

----------------------------------------------------------------------------
(* Cookies.  A CookieBody is a record; the canvas item ids are left out.   *)
(* A "world" w = [cookies, counts, status] is what spawn_cookie touches.   *)

\* math.pi * c.r * c.r, in dpx^2 (pi as 355/113).
CookieArea(r) == (r * r * 355) \div 113

\* sum(math.pi * c.r * c.r for c in self.cookies), over the positions
\* lo .. hi (the range is halved, so that the nesting stays shallow).
RECURSIVE SumArea(_, _, _)
SumArea(cs, lo, hi) ==
    IF lo > hi THEN 0
    ELSE IF lo = hi THEN CookieArea(cs[lo].r)
    ELSE LET mid == (lo + hi) \div 2
         IN  SumArea(cs, lo, mid) + SumArea(cs, mid + 1, hi)

\* A fill ratio that reports an empty bowl whatever it holds (the fault the
\* body-count bound is checked against).
fill_ratio_stale(cs) == 0 * Len(cs)

\* _fill_ratio, in permille.
fill_ratio(cs) == ((SumArea(cs, 1, Len(cs)) \div 10) * 100) \div (Max(1, bowl_area) \div 100)

\* The random draws of one spawn_cookie call: d.r radius, d.u the position of
\* x between the two bounds of random.uniform (permille), d.h the height
\* above the rim, d.vx, d.vy, d.ph wobble phase, d.fq wobble frequency (mHz).
NewCookie(color, d) ==
    LET lo == rim_left + d.r + 100
        hi == rim_right - d.r - 100
    IN  [color_name |-> color, r |-> d.r,
         x |-> lo + Quot((hi - lo) * d.u, 1000),
         y |-> rim_y - d.r - d.h,
         vx |-> d.vx, vy |-> d.vy,
         asleep |-> FALSE, sleep_counter |-> 0, underwater |-> FALSE,
         wobble_phase |-> d.ph, wobble_freq |-> d.fq]

\* self.counts.get(color, 0)
CountOf(cnt, color) == IF color \in DOMAIN cnt THEN cnt[color] ELSE 0

\* The counter update that stores 1 instead of the old count plus one (the
\* fault the counter property is checked against).
CountUp_overwrite(cnt, color) ==
    [k \in DOMAIN cnt \cup {color} |-> IF k = color THEN 1 ELSE cnt[k]]

\* self.counts[color] = self.counts.get(color, 0) + 1
CountUp(cnt, color) ==
    IF color \in DOMAIN cnt
    THEN [cnt EXCEPT ![color] = @ + 1]
    ELSE [k \in DOMAIN cnt \cup {color} |-> IF k = color THEN 1 ELSE cnt[k]]

\* spawn_cookie without the hard-stop test (the fault the capacity
\* properties are checked against).
spawn_cookie_no_hard_stop(w, color, d) ==
    IF Len(w.cookies) >= MAX_COOKIES /\ fill_ratio(w.cookies) >= OVERFLOW_AT
    THEN [w EXCEPT !.status = "too_many"]
    ELSE [w EXCEPT !.cookies = Append(@, NewCookie(color, d)),
                   !.counts = CountUp(@, color)]

\* spawn_cookie
spawn_cookie(w, color, d) ==
    LET ratio == fill_ratio(w.cookies)
    IN  IF ratio >= HARD_STOP_AT
        THEN [w EXCEPT !.status = "hard_stop"]
        ELSE IF Len(w.cookies) >= MAX_COOKIES /\ ratio >= OVERFLOW_AT
        THEN [w EXCEPT !.status = "too_many"]
        ELSE [w EXCEPT !.cookies = Append(@, NewCookie(color, d)),
                       !.counts = CountUp(@, color)]

\* _apply_underwater_mode
apply_underwater_mode(c) ==
    LET is_under == c.y >= water_y
    IN  IF is_under = c.underwater THEN c
        ELSE IF is_under
        THEN [c EXCEPT !.underwater = TRUE,
                       !.vx = Quot(@ * 78, 100), !.vy = Quot(@ * 60, 100)]
        ELSE [c EXCEPT !.underwater = FALSE, !.vx = Quot(@ * 105, 100)]

\* _underwater_wobble_ax at simulation time t (ms), in dpx/s^2.
underwater_wobble_ax(c, t) ==
    LET speed == Hypot(c.vx, c.vy)
        fade == clamp(Quot(speed * 2000, SLEEP_SPEED * 5), 0, 1000)
        wob == Sin1000(c.wobble_phase + Quot(c.wobble_freq * t, 1000))
    IN  Quot(Quot(WOBBLE_ACCEL * wob, 1000) * fade, 1000)

\* shake: imp[1] is the impulse drawn for the cookies at even positions,
\* imp[2] the one for those at odd positions.
shake(cs, imp) ==
    [i \in DOMAIN cs |->
        [cs[i] EXCEPT !.asleep = FALSE, !.sleep_counter = 0,
                      !.vx = @ + imp[(i % 2) + 1][1],
                      !.vy = @ + imp[(i % 2) + 1][2]]]

----------------------------------------------------------------------------
(* _step                                                                   *)

\* The body of the first loop of a substep, for one cookie; sub is the
\* substep in microseconds, t the simulation clock in ms.
Integrate(c0, sub, t) ==
    LET c == apply_underwater_mode(c0)
    IN  IF c.asleep THEN c
        ELSE
          LET gravity == IF c.underwater THEN GRAVITY_WATER ELSE GRAVITY_AIR
              friction == IF c.underwater THEN FRICTION_WATER ELSE FRICTION_AIR
              wvx == c.vx + Quot(underwater_wobble_ax(c, t) * sub, 1000000)
              vx1 == IF c.underwater
                     THEN wvx - Quot(Quot(wvx * WOBBLE_DAMP, 1000) * sub, 1000000)
                     ELSE c.vx
              vy1 == c.vy + Quot(gravity * sub, 1000000)
          IN  collide_cookie(
                [c EXCEPT !.x = @ + Quot(vx1 * sub, 1000000),
                          !.y = @ + Quot(vy1 * sub, 1000000),
                          !.vx = Quot(vx1 * friction, 1000),
                          !.vy = Quot(vy1 * (IF c.underwater THEN 990 ELSE 999), 1000)])

\* The direction drawn when two centres coincide: ang in quarter turns.
Cos1000(ang) == Sin1000(ang * 250 + 250)
Sin1000Q(ang) == Sin1000(ang * 250)

\* _resolve_circle_collision with the impulse applied to sleeping bodies too
\* (the fault the sleep invariant is checked against).
resolve_impulse_any(a, b, nx, ny) ==
    LET vel_n == Quot((b.vx - a.vx) * nx + (b.vy - a.vy) * ny, 1000)
    IN  IF vel_n > 0 THEN <<a, b>>
        ELSE
          LET j == Quot(-((1000 + COOKIE_RESTITUTION) * vel_n), 2000)
              ix == Quot(j * nx, 1000)
              iy == Quot(j * ny, 1000)
          IN  <<[a EXCEPT !.vx = @ - ix, !.vy = @ - iy],
                [b EXCEPT !.vx = @ + ix, !.vy = @ + iy]>>

\* _resolve_circle_collision, lines 857-872: the impulse along (nx, ny).
resolve_impulse(a, b, nx, ny) ==
    LET vel_n == Quot((b.vx - a.vx) * nx + (b.vy - a.vy) * ny, 1000)
    IN  IF vel_n > 0 THEN <<a, b>>
        ELSE
          LET j == Quot(-((1000 + COOKIE_RESTITUTION) * vel_n), 2000)
              ix == Quot(j * nx, 1000)
              iy == Quot(j * ny, 1000)
          IN  <<IF a.asleep THEN a ELSE [a EXCEPT !.vx = @ - ix, !.vy = @ - iy],
                IF b.asleep THEN b ELSE [b EXCEPT !.vx = @ + ix, !.vy = @ + iy]>>

\* The separation with the correction split evenly whatever the sleep state
\* of the pair (the fault the separation property is checked against).
resolve_separate_always_half(a, b, nx, ny, overlap) ==
    LET hx == Quot(nx * overlap, 2000)
        hy == Quot(ny * overlap, 2000)
        a1 == [a EXCEPT !.x = @ - hx, !.y = @ - hy]
        b1 == [b EXCEPT !.x = @ + hx, !.y = @ + hy]
    IN  IF overlap > DISTURB_OVERLAP
        THEN <<[a1 EXCEPT !.asleep = FALSE, !.sleep_counter = 0],
               [b1 EXCEPT !.asleep = FALSE, !.sleep_counter = 0]>>
        ELSE <<a1, b1>>

\* _resolve_circle_collision, lines 838-855: the separation along (nx, ny)
\* and the wake-up.
resolve_separate(a, b, nx, ny, overlap) ==
    LET ox == Quot(nx * overlap, 1000)
        oy == Quot(ny * overlap, 1000)
        hx == Quot(nx * overlap, 2000)
        hy == Quot(ny * overlap, 2000)
        a1 == IF a.asleep /\ ~b.asleep THEN a
              ELSE IF b.asleep /\ ~a.asleep
              THEN [a EXCEPT !.x = @ - ox, !.y = @ - oy]
              ELSE [a EXCEPT !.x = @ - hx, !.y = @ - hy]
        b1 == IF a.asleep /\ ~b.asleep
              THEN [b EXCEPT !.x = @ + ox, !.y = @ + oy]
              ELSE IF b.asleep /\ ~a.asleep THEN b
              ELSE [b EXCEPT !.x = @ + hx, !.y = @ + hy]
    IN  IF overlap > DISTURB_OVERLAP
        THEN <<[a1 EXCEPT !.asleep = FALSE, !.sleep_counter = 0],
               [b1 EXCEPT !.asleep = FALSE, !.sleep_counter = 0]>>
        ELSE <<a1, b1>>

\* _resolve_circle_collision: <<a', b'>>.  Coincident centres (dist2 = 0 at
\* this resolution) take the direction ang; the 0.01 px length of the drawn
\* vector is below the resolution and counts as 0.
\* The root is taken in 1/640 px (dist64) so that the normal of a pair a
\* pixel apart has length 1 to a permille; dist is its rounding to 1/10 px.
resolve_circle_collision(a, b, ang) ==
    LET dx == b.x - a.x
        dy == b.y - a.y
        dist2 == dx * dx + dy * dy
        min_dist == a.r + b.r
    IN  IF dist2 > 0 /\ dist2 >= min_dist * min_dist THEN <<a, b>>
        ELSE
          LET dist64 == ISqrt(dist2 * 4096)
              dist == (dist64 + 32) \div 64
              nx == IF dist2 = 0 THEN Cos1000(ang) ELSE Quot(dx * 64000, dist64)
              ny == IF dist2 = 0 THEN Sin1000Q(ang) ELSE Quot(dy * 64000, dist64)
              sep == resolve_separate(a, b, nx, ny, min_dist - dist)
          IN  resolve_impulse(sep[1], sep[2], nx, ny)

\* self._resolve_circle_collision(a, b) for the bodies at positions i and j.
PairOne(cs, i, j, ang) ==
    LET r == resolve_circle_collision(cs[i], cs[j], ang)
    IN  IF r[1] = cs[i] /\ r[2] = cs[j] THEN cs
        ELSE [cs EXCEPT ![i] = r[1], ![j] = r[2]]

\* for j in range(i + 1, n), over the positions lo .. hi in order (the range
\* is halved, so that the nesting stays shallow).
RECURSIVE PairInner(_, _, _, _, _)
PairInner(cs, i, lo, hi, ang) ==
    IF lo > hi \/ hi > Len(cs) THEN cs
    ELSE IF lo = hi THEN PairOne(cs, i, lo, ang)
    ELSE LET mid == (lo + hi) \div 2
         IN  PairInner(PairInner(cs, i, lo, mid, ang), i, mid + 1, hi, ang)

\* for i in range(n), over the positions lo .. hi in order.
RECURSIVE PairOuter(_, _, _, _)
PairOuter(cs, lo, hi, ang) ==
    IF lo > hi \/ hi > Len(cs) THEN cs
    ELSE IF lo = hi THEN PairInner(cs, lo, lo + 1, Len(cs), ang)
    ELSE LET mid == (lo + hi) \div 2
         IN  PairOuter(PairOuter(cs, lo, mid, ang), mid + 1, hi, ang)

RECURSIVE CollisionPasses(_, _, _)
CollisionPasses(cs, k, ang) ==
    IF k = 0 THEN cs ELSE CollisionPasses(PairOuter(cs, 1, Len(cs), ang), k - 1, ang)

RECURSIVE Substeps(_, _, _, _, _)
Substeps(cs, k, sub, t, ang) ==
    IF k = 0 THEN cs
    ELSE Substeps(
           CollisionPasses(<<>> \o [i \in DOMAIN cs |-> Integrate(cs[i], sub, t)],
                           COLLISION_PASSES, ang),
           k - 1, sub, t, ang)

\* The sleep update without the reset of the rest counter on a failing
\* update (the fault the sleep property is checked against).
SleepUpdate_keeps_count(c) ==
    IF c.asleep THEN c
    ELSE IF Hypot(c.vx, c.vy) < SLEEP_SPEED /\ c.y > rim_y + c.r
    THEN IF c.sleep_counter + 1 >= SLEEP_FRAMES
         THEN [c EXCEPT !.sleep_counter = @ + 1, !.asleep = TRUE, !.vx = 0, !.vy = 0]
         ELSE [c EXCEPT !.sleep_counter = @ + 1]
    ELSE c

\* The sleep update at the end of _step, for one cookie.
SleepUpdate(c) ==
    IF c.asleep THEN c
    ELSE IF Hypot(c.vx, c.vy) < SLEEP_SPEED /\ c.y > rim_y + c.r
    THEN IF c.sleep_counter + 1 >= SLEEP_FRAMES
         THEN [c EXCEPT !.sleep_counter = @ + 1, !.asleep = TRUE, !.vx = 0, !.vy = 0]
         ELSE [c EXCEPT !.sleep_counter = @ + 1]
    ELSE [c EXCEPT !.sleep_counter = 0]

\* _step(dt): dt in ms, t the simulation clock, ang the direction drawn for
\* coincident centres this frame.
step(cs, dt, t, ang) ==
    LET after == Substeps(cs, SUBSTEPS, (dt * 1000) \div SUBSTEPS, t, ang)
    IN  [i \in DOMAIN after |-> SleepUpdate(after[i])]

----------------------------------------------------------------------------
(* clear, _auto_drop_step, _defender_drop_step                             *)

\* What clear() resets: [cookies, counts, auto_accum, pending, status].
\* clear() that resets the counters and leaves the bodies in place (the
\* fault the fill-ratio property is checked against).
clear_state_keeps_bodies == [cookies |-> cookies, counts |-> <<>>, auto_accum |-> 0,
                             pending |-> <<>>, status |-> ""]

\* clear() that leaves the feed queue as it is (the fault the clear
\* property is checked against).
clear_state_keeps_pending == [cookies |-> <<>>, counts |-> <<>>, auto_accum |-> 0,
                              pending |-> def_pending, status |-> ""]

\* clear(): the values it leaves behind.
clear_state == [cookies |-> <<>>, counts |-> <<>>, auto_accum |-> 0,
                pending |-> <<>>, status |-> ""]

\* _auto_drop_step that starts every frame from an empty accumulator (the
\* fault the rate property is checked against).
auto_drop_step_no_carry(enabled, rate, accum, dt) ==
    IF ~enabled \/ Max(0, rate) <= 0 THEN [accum |-> 0, n |-> 0]
    ELSE [accum |-> 0, n |-> Min((dt * Max(0, rate)) \div 10000, AUTO_SPAWN_CAP)]

\* _auto_drop_step: the new accumulator and the number of spawn calls.
\* dt in ms, rate in 1/10 per second, accumulator in 1/10000 cookie.
auto_drop_step(enabled, rate, accum, dt) ==
    IF ~enabled THEN [accum |-> 0, n |-> 0]
    ELSE IF Max(0, rate) <= 0 THEN [accum |-> accum, n |-> 0]
    ELSE LET acc == accum + dt * Max(0, rate)
             to_spawn == acc \div 10000
         IN  IF to_spawn <= 0 THEN [accum |-> acc, n |-> 0]
             ELSE [accum |-> acc - to_spawn * 10000,
                   n |-> Min(to_spawn, AUTO_SPAWN_CAP)]

\* _defender_drop_step that empties the whole queue (the fault the
\* per-frame cap is checked against).
defender_drop_count_uncapped(enabled, pending) ==
    IF ~enabled THEN 0 ELSE Len(pending)

\* _defender_drop_step that leaves the last pending entry in the queue (the
\* fault the drain property is checked against).
defender_drop_count_leaves_last(enabled, pending) ==
    IF ~enabled THEN 0 ELSE Min(Max(0, Len(pending) - 1), MAX_DROPS_PER_TICK)

\* _defender_drop_step: how many entries the while loop pops.
defender_drop_count(enabled, pending) ==
    IF ~enabled THEN 0 ELSE Min(Len(pending), MAX_DROPS_PER_TICK)

\* The draws of the k-th spawn_cookie call of one frame: the frame's draw d
\* with the height moved on by k quarter ranges, inside [45, 120] px.
FrameDraw(d, k) == [d EXCEPT !.h = 450 + ((@ - 450 + 250 * k) % 751)]

\* for ...: self.spawn_cookie(color), over the colours cols, the calls
\* numbered from k + 1 within the frame.
RECURSIVE SpawnMany(_, _, _, _)
SpawnMany(w, cols, d, k) ==
    IF cols = <<>> THEN w
    ELSE SpawnMany(spawn_cookie(w, Head(cols), FrameDraw(d, k + 1)), Tail(cols), d, k + 1)

----------------------------------------------------------------------------
(* The Defender feed.  A snapshot is the list snap["threats"]; an item is  *)
(* a record [dict, rid, sev_id, sev_txt]: dict is FALSE for an item that   *)
(* is no dict (on which t.get raises); rid stands for the string           *)
(* name|det_time|sev_id|res; sev_id -1 stands for None or a non-number,    *)
(* sev_txt for the lower-cased severity word ("" for None).                *)

Threads == {"poll", "manual"}

\* defender_severity_to_cookie_color
defender_severity_to_cookie_color(sev_id, sev_txt) ==
    IF sev_txt \in {"severe", "high"} THEN "red"
    ELSE IF sev_txt \in {"moderate", "medium"} THEN "orange"
    ELSE IF sev_txt = "low" THEN "yellow"
    ELSE IF sev_id = -1 THEN "purple"
    ELSE IF sev_id >= 5 THEN "red"
    ELSE IF sev_id = 4 THEN "red"
    ELSE IF sev_id \in {2, 3} THEN "orange"
    ELSE IF sev_id = 1 THEN "yellow"
    ELSE "purple"

DetA == [dict |-> TRUE, rid |-> "A", sev_id |-> 5, sev_txt |-> "severe"]
DetB == [dict |-> TRUE, rid |-> "B", sev_id |-> 2, sev_txt |-> ""]
DetC == [dict |-> TRUE, rid |-> "C", sev_id |-> -1, sev_txt |-> ""]
DetD == [dict |-> TRUE, rid |-> "D", sev_id |-> 1, sev_txt |-> "low"]
DetBad == [dict |-> FALSE, rid |-> "", sev_id |-> -1, sev_txt |-> ""]
Ids == {"A", "B", "C", "D"}

HasBad(snap) == \E k \in 1 .. Len(snap) : ~snap[k].dict

\* The for loop of _defender_sync_once over threats[k..]: acc holds
\* new_colors, current_ids and (observation) the rids behind new_colors.
RECURSIVE ScanThreats(_, _, _, _)
ScanThreats(snap, k, last_ids, acc) ==
    IF k > Len(snap) THEN acc
    ELSE LET t == snap[k]
             fresh == t.rid \notin last_ids
         IN  ScanThreats(snap, k + 1, last_ids,
               [new_colors |-> IF fresh
                               THEN Append(acc.new_colors,
                                        defender_severity_to_cookie_color(t.sev_id, t.sev_txt))
                               ELSE acc.new_colors,
                current_ids |-> acc.current_ids \cup {t.rid},
                new_rids |-> IF fresh THEN Append(acc.new_rids, t.rid) ELSE acc.new_rids,
                total |-> Len(snap)])

NoLocal == [new_colors |-> <<>>, current_ids |-> {}, new_rids |-> <<>>, total |-> 0]

\* How often rid occurs in the sequence rids.
RECURSIVE Occurs(_, _)
Occurs(rids, rid) ==
    IF rids = <<>> THEN 0
    ELSE (IF Head(rids) = rid THEN 1 ELSE 0) + Occurs(Tail(rids), rid)

----------------------------------------------------------------------------
(* State.                                                                  *)

NoRun == [rate |-> 0, dt |-> 0, t |-> 0, k |-> 0, calls |-> 0]

\* What clear() found, before the first clear() of a row of clear() calls.
NoCleared == [bodies |-> 0, colours |-> 0, accum |-> 0, pending |-> 0]

Obs0 == [frames |-> 0, dt |-> 0, spawns |-> 0, rejects |-> 0, shakes |-> 0, clears |-> 0, polls |-> 0,
         fails |-> 0, ui |-> 0,
         enq |-> [i \in Ids |-> 0],
         dropped |-> 0, feed_calls |-> 0, auto_calls |-> 0, pending_before |-> 0,
         run |-> NoRun, cleared |-> NoCleared, streak |-> 0]

Event(op, arg) == [op |-> op, arg |-> arg]

Init ==
    /\ cookies = <<>>
    /\ counts = <<>>
    /\ status = ""
    /\ auto_enabled = FALSE
    /\ auto_rate = 30
    /\ auto_accum = 0
    /\ def_auto_drop = TRUE
    /\ def_poll = TRUE
    /\ def_last_ids = {}
    /\ def_pending = <<>>
    /\ def_last_error = ""
    /\ def_status = "not_checked"
    /\ def_total = 0
    /\ sim_t = 0
    /\ tpc = [t \in Threads |-> "idle"]
    /\ tlocal = [t \in Threads |-> NoLocal]
    /\ ev = Event("init", "")
    /\ obs = Obs0

World == [cookies |-> cookies, counts |-> counts, status |-> status]

feedVars == <<def_last_ids, def_pending, def_last_error, def_status, def_total,
              tpc, tlocal>>
autoVars == <<auto_enabled, auto_rate, auto_accum>>
uiVars == <<def_auto_drop, def_poll>>

----------------------------------------------------------------------------
(* Handlers.  Each action is one handler of the program; its random draws  *)
(* and its inputs are parameters.                                          *)

WobblePeriod == 5 * 1000

\* A palette button: spawn_cookie(col).
Spawn(color, d) ==
    LET w == spawn_cookie(World, color, d)
    IN  /\ cookies' = w.cookies
        /\ counts' = w.counts
        /\ status' = w.status
        /\ ev' = Event(IF Len(w.cookies) = Len(cookies) THEN "spawn_rejected"
                       ELSE "spawn", color)
        /\ obs' = [obs EXCEPT !.spawns = @ + 1,
                               !.rejects = IF Len(w.cookies) = Len(cookies)
                                           THEN @ + 1 ELSE @]
        /\ UNCHANGED <<autoVars, uiVars, feedVars, sim_t>>

\* The Shake button.
Shake(imp) ==
    /\ cookies' = shake(cookies, imp)
    /\ ev' = Event("shake", "")
    /\ obs' = [obs EXCEPT !.shakes = @ + 1]
    /\ UNCHANGED <<counts, status, autoVars, uiVars, feedVars, sim_t>>

\* The Clear button.
Clear ==
    /\ cookies' = clear_state.cookies
    /\ counts' = clear_state.counts
    /\ auto_accum' = clear_state.auto_accum
    /\ def_pending' = clear_state.pending
    /\ status' = clear_state.status
    /\ ev' = Event("clear", "")
    /\ obs' = [obs EXCEPT !.clears = @ + 1, !.enq = [i \in Ids |-> 0], !.run = NoRun,
                          !.streak = IF ev.op = "clear" THEN @ + 1 ELSE 1,
                          !.cleared = IF ev.op = "clear" THEN @
                                      ELSE [bodies |-> Len(cookies),
                                            colours |-> Cardinality(DOMAIN counts),
                                            accum |-> auto_accum,
                                            pending |-> Len(def_pending)]]
    /\ UNCHANGED <<auto_enabled, auto_rate, uiVars, def_last_ids, def_last_error,
                   def_status, def_total, tpc, tlocal, sim_t>>

\* The check buttons and the rate scale.
SetAuto(enabled, rate) ==
    /\ auto_enabled' = enabled
    /\ auto_rate' = rate
    /\ ev' = Event("ui", "")
    /\ obs' = [obs EXCEPT !.ui = @ + 1]
    /\ UNCHANGED <<cookies, counts, status, auto_accum, uiVars, feedVars, sim_t>>

SetDefender(auto_drop, poll) ==
    /\ def_auto_drop' = auto_drop
    /\ def_poll' = poll
    /\ ev' = Event("ui", "")
    /\ obs' = [obs EXCEPT !.ui = @ + 1]
    /\ UNCHANGED <<cookies, counts, status, autoVars, feedVars, sim_t>>

\* The streak of frames with autodrop enabled at one rate (observation for
\* the rate property): the rate, the size dt of the last frame, the time t
\* the frames add up to, their number k and the spawn calls autodrop made.
NextRun(run, enabled, rate, dt, n) ==
    IF ~enabled THEN NoRun
    ELSE IF run.k > 0 /\ run.rate = rate
    THEN [run EXCEPT !.dt = dt, !.t = @ + dt, !.k = @ + 1, !.calls = @ + n]
    ELSE [rate |-> rate, dt |-> dt, t |-> dt, k |-> 1, calls |-> n]

\* _loop: one frame of dt ms.  d: the draws of the frame's spawns, acol: the
\* autodrop colour (random.choice or the fixed colour), ang: the direction
\* drawn for coincident centres.
Loop(dt, d, acol, ang) ==
    LET t1 == (sim_t + dt) % WobblePeriod
        ad == auto_drop_step(auto_enabled, auto_rate, auto_accum, dt)
        w1 == SpawnMany(World, [i \in 1 .. ad.n |-> acol], d, 0)
        nd == defender_drop_count(def_auto_drop, def_pending)
        w2 == SpawnMany(w1, SubSeq(def_pending, 1, nd), d, ad.n)
    IN  /\ sim_t' = t1
        /\ auto_accum' = ad.accum
        /\ def_pending' = SubSeq(def_pending, nd + 1, Len(def_pending))
        /\ cookies' = step(w2.cookies, dt, t1, ang)
        /\ counts' = w2.counts
        /\ status' = w2.status
        /\ ev' = Event("loop", "")
        /\ obs' = [obs EXCEPT !.frames = @ + 1, !.dt = dt, !.dropped = nd, !.feed_calls = nd,
                              !.auto_calls = ad.n, !.pending_before = Len(def_pending),
                              !.run = NextRun(@, auto_enabled, auto_rate, dt, ad.n)]
        /\ UNCHANGED <<auto_enabled, auto_rate, uiVars, def_last_ids, def_last_error,
                       def_status, def_total, tpc, tlocal>>

\* The except branch with the seen identifiers forgotten on an error (the
\* fault the failed-poll property is checked against).
SyncExcept_forgets_ids(t) ==
    /\ def_last_error' = "err"
    /\ def_status' = "error"
    /\ def_last_ids' = {}
    /\ ev' = Event("sync_fail", t)
    /\ obs' = [obs EXCEPT !.fails = @ + 1]
    /\ UNCHANGED <<def_pending, def_total, tpc, tlocal>>

\* _defender_sync_once, the except branch on thread t (lines 613-617); the
\* thread returns to its caller (_defender_loop sleeps and polls again).
SyncExcept(t) ==
    /\ def_last_error' = "err"
    /\ def_status' = "error"
    /\ ev' = Event("sync_fail", t)
    /\ obs' = [obs EXCEPT !.fails = @ + 1]
    /\ UNCHANGED <<def_last_ids, def_pending, def_total, tpc, tlocal>>

\* _defender_sync_once on thread t when fetch_defender_snapshot raises.
SyncFetchFail(t) ==
    /\ tpc[t] = "idle"
    /\ t = "poll" => def_poll
    /\ SyncExcept(t)
    /\ UNCHANGED <<cookies, counts, status, autoVars, uiVars, sim_t>>

\* _defender_sync_once on thread t, lines 569-602: the snapshot is fetched
\* and scanned against _defender_last_ids (read without the lock).  An item
\* that is no dict raises, and the except branch runs.
SyncScan(t, snap) ==
    /\ tpc[t] = "idle"
    /\ t = "poll" => def_poll
    /\ IF HasBad(snap)
       THEN SyncExcept(t)
       ELSE /\ tlocal' = [tlocal EXCEPT ![t] = ScanThreats(snap, 1, def_last_ids, NoLocal)]
            /\ tpc' = [tpc EXCEPT ![t] = "commit"]
            /\ ev' = Event("scan", t)
            /\ obs' = [obs EXCEPT !.polls = @ + 1]
            /\ UNCHANGED <<def_last_error, def_status, def_last_ids, def_pending, def_total>>
    /\ UNCHANGED <<cookies, counts, status, autoVars, uiVars, sim_t>>

\* _defender_sync_once on thread t, lines 604-611: the locked update.
SyncCommit(t) ==
    /\ tpc[t] = "commit"
    /\ def_last_error' = ""
    /\ def_status' = "ok"
    /\ def_total' = tlocal[t].total
    /\ def_last_ids' = tlocal[t].current_ids
    /\ def_pending' = def_pending \o tlocal[t].new_colors
    /\ tpc' = [tpc EXCEPT ![t] = "idle"]
    /\ tlocal' = [tlocal EXCEPT ![t] = NoLocal]
    /\ ev' = Event("commit", t)
    /\ obs' = [obs EXCEPT !.enq = [i \in Ids |-> @[i] + Occurs(tlocal[t].new_rids, i)]]
    /\ UNCHANGED <<cookies, counts, status, autoVars, uiVars, sim_t>>

----------------------------------------------------------------------------
(* Inputs.  The random draws and the user's inputs come from small sets    *)
(* inside the ranges of the code.                                          *)

DrawMid == [r |-> 110, u |-> 500, h |-> 450, vx |-> 0, vy |-> 0, ph |-> 0, fq |-> 1000]
DrawBig == [r |-> 180, u |-> 0, h |-> 1200, vx |-> 2400, vy |-> -400, ph |-> 250, fq |-> 600]

ImpulseHard == << <<7600, -5600>>, <<-7600, 2200>> >>
ImpulseSoft == << <<0, 0>>, <<-300, 100>> >>


----------------------------------------------------------------------------
(* SpecPhysics: few bodies, many frames of 33 ms (the clamp of _loop).     *)
(* The user drops, shakes and clears between frames, at every             *)
(* EventEvery-th frame.                                                    *)

MaxBodies == 2
MaxFrames == 140
MaxShakes == 1
MaxClears == 1
EventEvery == 45

\* The user acts between frames, at every EventEvery-th frame.
UserSlot == obs.frames % EventEvery = 0

PhysSpawn ==
    \E d \in {DrawMid, DrawBig} :
        /\ obs.spawns < MaxBodies
        /\ UserSlot
        /\ Spawn("red", d)

PhysShake ==
    \E imp \in {ImpulseHard, ImpulseSoft} :
        /\ obs.shakes < MaxShakes
        /\ UserSlot
        /\ cookies # <<>>
        /\ Shake(imp)

PhysClear ==
    /\ obs.clears < MaxClears
    /\ UserSlot
    /\ cookies # <<>>
    /\ Clear

PhysLoop ==
    \E ang \in {0, 1} :
        /\ obs.frames < MaxFrames
        /\ cookies # <<>>
        /\ Loop(MAX_DT, DrawMid, "red", ang)

PhysNext == PhysSpawn \/ PhysShake \/ PhysClear \/ PhysLoop

SpecPhysics == Init /\ [][PhysNext]_vars

----------------------------------------------------------------------------
(* SpecFeed: the periodic poll thread against the frame loop.  Detections  *)
(* stay, leave and come back from one snapshot to the next; one snapshot   *)
(* holds an item that is no dict; the fetch itself may raise.              *)

MaxPolls == 3
MaxFails == 1
MaxFeedFrames == 2
MaxFeedUi == 1

FeedSnaps == { <<>>, <<DetA>>, <<DetB>>, <<DetA, DetB>>,
               <<DetA, DetB, DetC, DetD>>, <<DetA, DetBad>> }

FeedScan ==
    \E snap \in FeedSnaps :
        /\ obs.polls < MaxPolls
        /\ HasBad(snap) => obs.fails < MaxFails
        /\ SyncScan("poll", snap)

FeedFetchFail ==
    /\ obs.fails < MaxFails
    /\ SyncFetchFail("poll")

FeedCommit == SyncCommit("poll")

FeedLoop ==
    /\ obs.frames < MaxFeedFrames
    /\ Loop(MAX_DT, DrawMid, "red", 0)

FeedClear ==
    /\ obs.clears < MaxClears
    /\ Clear

FeedUi ==
    \E b \in BOOLEAN :
        /\ obs.ui < MaxFeedUi
        /\ b # def_auto_drop
        /\ SetDefender(b, def_poll)

FeedNext == FeedScan \/ FeedFetchFail \/ FeedCommit \/ FeedLoop \/ FeedClear \/ FeedUi

SpecFeed == Init /\ [][FeedNext]_vars

----------------------------------------------------------------------------
(* SpecRace: the periodic poll and a "Sync now" thread run                  *)
(* _defender_sync_once side by side on a feed that only grows: a snapshot   *)
(* holds every identifier observed before it.  No clear().                  *)

MaxRacePolls == 4
MaxRaceFrames == 2

RaceSnaps == { <<DetA>>, <<DetA, DetB>>, <<DetA, DetB, DetC>> }

\* The identifiers some poll has observed so far.
Observed ==
    def_last_ids \cup tlocal["poll"].current_ids \cup tlocal["manual"].current_ids
        \cup {i \in Ids : obs.enq[i] > 0}

RaceScan ==
    \E t \in Threads, snap \in RaceSnaps :
        /\ obs.polls < MaxRacePolls
        /\ Observed \subseteq {snap[k].rid : k \in 1 .. Len(snap)}
        /\ SyncScan(t, snap)

RaceCommit == \E t \in Threads : SyncCommit(t)

RaceLoop ==
    /\ obs.frames < MaxRaceFrames
    /\ Loop(MAX_DT, DrawMid, "red", 0)

RaceNext == RaceScan \/ RaceCommit \/ RaceLoop

SpecRace == Init /\ [][RaceNext]_vars

----------------------------------------------------------------------------
(* SpecRest: eight bodies are dropped one every RestEvery frames and left   *)
(* to settle into a pile and fall asleep.                                   *)

MaxRestBodies == 8
MaxRestFrames == 160
RestEvery == 10

RestDraws == << DrawMid, DrawBig,
                [DrawMid EXCEPT !.vx = -2400, !.r = 150],
                [DrawBig EXCEPT !.vx = 1000, !.r = 130] >>

RestSpawn ==
    /\ obs.spawns < MaxRestBodies
    /\ obs.frames = RestEvery * obs.spawns
    /\ Spawn("red", RestDraws[(obs.spawns % Len(RestDraws)) + 1])

RestLoop ==
    /\ obs.frames < MaxRestFrames
    /\ obs.spawns = MaxRestBodies \/ obs.frames < RestEvery * obs.spawns
    /\ Loop(MAX_DT, DrawMid, "red", 0)

RestNext == RestSpawn \/ RestLoop

SpecRest == Init /\ [][RestNext]_vars

----------------------------------------------------------------------------
(* SpecDrain: the feed thread polls and commits while the frame loop runs   *)
(* with the feed auto-drop check button left on and no clear().  _loop      *)
(* re-arms itself with root.after(16, ...) and the lock it takes in         *)
(* _defender_drop_step is held by the feed thread for the few assignments   *)
(* of the commit only, so a frame that is due is run: weak fairness on the  *)
(* frame (WF).                                                              *)

MaxDrainPolls == 3
MaxDrainFrames == 1

DrainSnaps == { <<>>, <<DetA, DetB>>, <<DetA, DetB, DetC, DetD>> }

DrainScan ==
    \E snap \in DrainSnaps :
        /\ obs.polls < MaxDrainPolls
        /\ SyncScan("poll", snap)

DrainCommit == SyncCommit("poll")

\* Frames beyond MaxDrainFrames are followed as long as requests are pending.
DrainLoop ==
    /\ def_pending # <<>> \/ obs.frames < MaxDrainFrames
    /\ Loop(MAX_DT, DrawMid, "red", 0)

DrainNext == DrainScan \/ DrainCommit \/ DrainLoop

\* ENABLED <<DrainLoop>>_vars: Loop has no guard of its own and every frame
\* advances obs.frames.
FrameDue == def_pending # <<>> \/ obs.frames < MaxDrainFrames

\* WF_vars(DrainLoop), written out with FrameDue for the enabling condition.
DrainFair == []<>(~FrameDue) \/ []<><<DrainLoop>>_vars

SpecDrain == Init /\ [][DrainNext]_vars /\ DrainFair

----------------------------------------------------------------------------
(* SpecFill: the bowl is filled to its capacity by the palette buttons.    *)
(* The first body is red, the first FillFree bodies are free in radius     *)
(* (the smallest and the largest the code draws, never shrinking) and the  *)
(* second in colour; the later ones repeat the first, so that a run        *)
(* reaches the hard stop.                                                  *)
(* MaxFillBodies is above MAX_COOKIES: only the code's own checks keep the *)
(* body count below it.  Once the bowl is full, autodrop is switched on at *)
(* the top rate and the feed is polled, and the bowl is asked for more     *)
(* bodies, shaken, stepped (when it holds at most MaxStepBodies bodies)    *)
(* and cleared; after a clear FillAfterClear more bodies are asked for.    *)

MaxFillBodies == 262
MaxRejects == 1
MaxFillFrames == 2
MaxStepBodies == 94
FillFree == 2
FillAfterClear == 2

Full == fill_ratio(cookies) >= HARD_STOP_AT

Untouched == obs.frames = 0 /\ obs.shakes = 0 /\ obs.rejects = 0 /\ obs.clears = 0

FillSpawn ==
    \E col \in {"red", "blue"}, d \in {DrawMid, DrawBig} :
        /\ Len(cookies) < MaxFillBodies
        /\ obs.rejects < MaxRejects
        /\ obs.clears > 0 => Len(cookies) < FillAfterClear
        /\ Len(cookies) = 0 => col = "red"
        /\ Len(cookies) > 0 => d.r >= cookies[1].r
        /\ Len(cookies) >= FillFree =>
              col = cookies[1].color_name /\ d.r = cookies[1].r
        /\ Spawn(col, d)

FillSetAuto ==
    /\ Full /\ Untouched
    /\ obs.ui = 0
    /\ SetAuto(TRUE, AUTO_RATE_MAX)

FillScan ==
    /\ Full /\ Untouched
    /\ obs.ui = 1 /\ obs.polls = 0
    /\ SyncScan("poll", <<DetA, DetB>>)

FillCommit ==
    /\ Full /\ Untouched
    /\ SyncCommit("poll")

FillShake ==
    /\ obs.shakes < MaxShakes
    /\ Full
    /\ Shake(ImpulseHard)

FillLoop ==
    /\ obs.frames < MaxFillFrames
    /\ Full
    /\ Len(cookies) <= MaxStepBodies
    /\ Loop(MAX_DT, DrawMid, "red", 0)

FillClear ==
    /\ obs.clears < MaxClears
    /\ Full
    /\ Clear

FillNext ==
    \/ FillSpawn \/ FillSetAuto \/ FillScan \/ FillCommit
    \/ FillShake \/ FillLoop \/ FillClear

SpecFill == Init /\ [][FillNext]_vars

----------------------------------------------------------------------------
(* SpecAuto: autodrop.  The check button and the rate scale are moved at   *)
(* every AutoEvery-th frame, at most MaxAutoUi times; the frame size is    *)
(* free for the first AutoFree frames and then stays; clear() is pressed   *)
(* between frames.                                                         *)

MaxAutoFrames == 24
MaxAutoUi == 2
AutoEvery == 4
AutoFree == 2

AutoRates == {0, 30, 137, AUTO_RATE_MAX}

AutoSet ==
    \E b \in BOOLEAN, r \in AutoRates :
        /\ obs.ui < MaxAutoUi
        /\ obs.frames % AutoEvery = 0
        /\ ev.op # "ui"
        /\ <<b, r>> # <<auto_enabled, auto_rate>>
        /\ b \/ r = auto_rate
        /\ SetAuto(b, r)

AutoLoop ==
    \E dt \in {16, MAX_DT} :
        /\ obs.frames < MaxAutoFrames
        /\ obs.ui > 0
        /\ obs.frames >= AutoFree => dt = obs.dt
        /\ Loop(dt, DrawMid, COLORS[1], 0)

AutoClear ==
    /\ obs.clears < MaxClears
    /\ obs.frames % AutoEvery = 2
    /\ cookies # <<>>
    /\ Clear

AutoNext == AutoSet \/ AutoLoop \/ AutoClear

SpecAuto == Init /\ [][AutoNext]_vars

----------------------------------------------------------------------------
(* Spec: every handler, a few times each.                                  *)

MaxSpecSpawns == 1
MaxSpecFrames == 1
MaxSpecClears == 2
MaxSpecUi == 1
MaxSpecPolls == 1

SpecSnaps == { <<DetA>>, <<DetA, DetB>> }

SpSpawn ==
    \E col \in {"red", "blue"} :
        /\ obs.spawns < MaxSpecSpawns
        /\ Spawn(col, DrawMid)

SpShake ==
    /\ obs.shakes < MaxShakes
    /\ cookies # <<>>
    /\ Shake(ImpulseSoft)

SpClear ==
    /\ obs.clears < MaxSpecClears
    /\ Clear

SpSetAuto ==
    /\ obs.ui < MaxSpecUi
    /\ SetAuto(~auto_enabled, AUTO_RATE_MAX)

SpSetDefender ==
    \E b \in BOOLEAN :
        /\ obs.ui < MaxSpecUi
        /\ SetDefender(b, ~b)

SpLoop ==
    /\ obs.frames < MaxSpecFrames
    /\ Loop(MAX_DT, DrawBig, "blue", 1)

SpScan ==
    \E t \in Threads, snap \in SpecSnaps :
        /\ obs.polls + obs.fails < MaxSpecPolls
        /\ SyncScan(t, snap)

SpFetchFail ==
    \E t \in Threads :
        /\ obs.polls + obs.fails < MaxSpecPolls
        /\ SyncFetchFail(t)

SpCommit == \E t \in Threads : SyncCommit(t)

Next ==
    \/ SpSpawn \/ SpShake \/ SpClear \/ SpSetAuto \/ SpSetDefender
    \/ SpLoop \/ SpScan \/ SpFetchFail \/ SpCommit

Spec == Init /\ [][Next]_vars

----------------------------------------------------------------------------
(* Properties.                                                             *)

Dist2(a, b) == (b.x - a.x) * (b.x - a.x) + (b.y - a.y) * (b.y - a.y)
Touching(a, b) == Dist2(a, b) <= (a.r + b.r + 10) * (a.r + b.r + 10)

\* C4: in every reachable state, after any sequence of spawn, step, shake
\* and clear, every body with asleep = TRUE has velocity (0, 0).
C4_AsleepHasZeroVelocity ==
    \A i \in 1 .. Len(cookies) :
        cookies[i].asleep => cookies[i].vx = 0 /\ cookies[i].vy = 0

\* C4's case: a sleeping body in contact with a moving, awake one, in a bowl
\* that has been stepped.
C4_Witness ==
    /\ ev.op = "loop"
    /\ \E i, j \in 1 .. Len(cookies) :
          /\ cookies[i].asleep
          /\ ~cookies[j].asleep
          /\ cookies[j].vx # 0 \/ cookies[j].vy # 0
          /\ Touching(cookies[i], cookies[j])

\* C1 (as claimed): with no clear() in between, each detection identifier
\* enqueues one spawn request, at its first observation, and never again.
\* obs.enq counts the requests enqueued per identifier since the last clear().
C1_EachIdEnqueuedOnce == \A i \in Ids : obs.enq[i] <= 1

\* C5: one frame removes at most MAX_DROPS_PER_TICK entries from the head of
\* the pending queue and makes at most that many spawn calls from it, however
\* long the queue is.
C5_DrainBounded ==
    [][ev'.op = "loop" =>
         /\ Len(def_pending) - Len(def_pending') <= MAX_DROPS_PER_TICK
         /\ def_pending' = SubSeq(def_pending, Len(def_pending) - Len(def_pending') + 1,
                                  Len(def_pending))
         /\ Len(cookies') - Len(cookies) <= MAX_DROPS_PER_TICK + obs'.auto_calls]_vars

\* C5's case: a frame that met more than MAX_DROPS_PER_TICK pending requests,
\* dropped that many and left the rest queued.
C5_Witness ==
    /\ ev.op = "loop"
    /\ obs.pending_before > MAX_DROPS_PER_TICK
    /\ Len(def_pending) = obs.pending_before - MAX_DROPS_PER_TICK
    /\ Len(cookies) = MAX_DROPS_PER_TICK

\* C10: a feed poll that fails enqueues nothing, leaves the seen identifiers,
\* the total and the bodies as they were, records only the error and status
\* text, and leaves its thread ready to poll again.
C10_FailedPollChangesOnlyStatus ==
    [][ev'.op = "sync_fail" =>
         /\ def_pending' = def_pending
         /\ def_last_ids' = def_last_ids
         /\ def_total' = def_total
         /\ cookies' = cookies
         /\ counts' = counts
         /\ def_last_error' = "err"
         /\ def_status' = "error"
         /\ tpc'[ev'.arg] = "idle"]_vars

\* C10's case: a poll failed after earlier polls had filled the identifier
\* set and the queue, and frames had dropped bodies.
C10_Witness ==
    /\ ev.op = "sync_fail"
    /\ def_last_ids # {}
    /\ def_pending # <<>>
    /\ cookies # <<>>
    /\ def_last_error = "err"


\* C2: once the fill ratio is at or above HARD_STOP_AT, every step other
\* than clear() leaves the number of bodies and the counters as they are and
\* the bowl full: each spawn call of a button, of autodrop and of the feed
\* queue is rejected, whatever the order of spawn, step and shake.
C2_FullBowlRejectsAll ==
    [][fill_ratio(cookies) >= HARD_STOP_AT /\ ev'.op # "clear" =>
          /\ Len(cookies') = Len(cookies)
          /\ counts' = counts
          /\ fill_ratio(cookies') >= HARD_STOP_AT
          /\ ev'.op # "spawn"]_vars

\* A full bowl that was asked for a body by a button, shaken, and stepped
\* with an autodrop spawn call, after the feed queue was drained into it.
C2_Witness ==
    /\ ev.op = "loop"
    /\ fill_ratio(cookies) >= HARD_STOP_AT
    /\ obs.clears = 0
    /\ obs.auto_calls >= 1
    /\ obs.enq["A"] = 1 /\ def_pending = <<>>
    /\ obs.rejects >= 1
    /\ obs.shakes >= 1

SpawnRejects(cs) ==
    \/ fill_ratio(cs) >= HARD_STOP_AT
    \/ Len(cs) >= MAX_COOKIES /\ fill_ratio(cs) >= OVERFLOW_AT

\* C3: a spawn request is rejected exactly when the fill ratio is at or
\* above HARD_STOP_AT, or the body count is at MAX_COOKIES with the ratio at
\* or above OVERFLOW_AT; a rejected request leaves bodies and counters as
\* they are, an accepted one appends one body of the requested colour and
\* adds one to that colour's counter and to no other.
C3_SpawnRejectsExactly ==
    [][ev'.op \in {"spawn", "spawn_rejected"} =>
          IF SpawnRejects(cookies)
          THEN /\ ev'.op = "spawn_rejected"
               /\ cookies' = cookies
               /\ counts' = counts
          ELSE /\ ev'.op = "spawn"
               /\ Len(cookies') = Len(cookies) + 1
               /\ SubSeq(cookies', 1, Len(cookies)) = cookies
               /\ cookies'[Len(cookies')].color_name = ev'.arg
               /\ DOMAIN counts' = DOMAIN counts \cup {ev'.arg}
               /\ \A c \in DOMAIN counts' :
                     counts'[c] = CountOf(counts, c) + (IF c = ev'.arg THEN 1 ELSE 0)]_vars

\* A rejected request to a full bowl that holds bodies of two colours.
C3_Witness ==
    /\ ev.op = "spawn_rejected"
    /\ SpawnRejects(cookies)
    /\ CountOf(counts, "red") > 1
    /\ CountOf(counts, "blue") = 1

\* C6: the fill ratio never decreases across spawn, step and shake; only
\* clear() lowers it, and clear() sets it to zero.
C6_FillRatioMonotone ==
    [][IF ev'.op = "clear"
       THEN fill_ratio(cookies') = 0
       ELSE fill_ratio(cookies') >= fill_ratio(cookies)]_vars

\* A bowl that was filled, shaken and stepped, and then cleared.
C6_Witness ==
    /\ ev.op = "clear"
    /\ obs.shakes >= 1 /\ obs.frames >= 1
    /\ obs.spawns >= 94
    /\ fill_ratio(cookies) = 0

\* C7: the number of bodies is at most MAX_COOKIES in every reachable state.
C7_BodyCountBounded == Len(cookies) <= MAX_COOKIES

\* The bowl filled with bodies of the smallest radius: the request after the
\* last one that fits is rejected.
C7_Witness ==
    /\ ev.op = "spawn_rejected"
    /\ Len(cookies) = 250
    /\ \A i \in 1 .. Len(cookies) : cookies[i].r = 110

\* C8: over a streak of k frames with autodrop enabled at one rate R, which
\* add up to the time T (k times dt for frames of one size), the number of
\* autodrop spawn calls differs from floor(R * T) by at most 1, and it is at
\* most the cap of one frame times k.
C8_AutodropRate ==
    obs.run.k > 0 =>
        LET floorRT == (obs.run.rate * obs.run.t) \div 10000
        IN  /\ obs.run.calls >= floorRT - 1
            /\ obs.run.calls <= floorRT + 1
            /\ obs.run.calls <= AUTO_SPAWN_CAP * obs.run.k

\* A streak at a new rate that began with a remainder in the accumulator:
\* the calls are one more than floor(R * T).
C8_Witness ==
    /\ ev.op = "loop"
    /\ obs.run.k >= 4
    /\ obs.run.calls >= 2
    /\ obs.run.calls = (obs.run.rate * obs.run.t) \div 10000 + 1
    /\ auto_accum > 0

progVars == <<cookies, counts, status, auto_enabled, auto_rate, auto_accum,
              def_auto_drop, def_poll, def_last_ids, def_pending, def_last_error,
              def_status, def_total, sim_t, tpc, tlocal>>

\* C9: clear() leaves the body collection empty, the per-colour counters
\* empty, the autodrop accumulator at 0 and the pending feed queue empty,
\* from every reachable state; a second clear() right after the first
\* changes nothing.
C9_ClearEmptiesIdempotent ==
    [][ev'.op = "clear" =>
          /\ cookies' = <<>>
          /\ counts' = <<>>
          /\ auto_accum' = 0
          /\ def_pending' = <<>>
          /\ ev.op = "clear" => progVars' = progVars]_vars

\* clear() pressed twice in a row on a bowl that held bodies, counters, a
\* remainder in the accumulator and a pending feed entry.
C9_Witness ==
    /\ ev.op = "clear"
    /\ obs.streak = 2
    /\ obs.cleared.bodies > 0
    /\ obs.cleared.colours > 0
    /\ obs.cleared.accum > 0
    /\ obs.cleared.pending > 0
    /\ cookies = <<>> /\ def_pending = <<>>

\* The containment test of collide_cookie: the normalised squared distance
\* of the centre from the bowl centre, for the ellipse shrunk by the radius
\* (1000000 is the boundary).
ShrunkS2(c) ==
    LET a == Max(50, bowl_a - c.r)
        b == Max(50, bowl_b - c.r)
        ex == Quot((c.x - bowl_cx) * 1000, a)
        ey == Quot((c.y - bowl_cy) * 1000, b)
    IN  ex * ex + ey * ey

AboveRim(c) == c.y * 10 < rim_y * 10 - c.r * 6

\* C11 (as claimed): after a step every body, awake or asleep, has its
\* centre above rim_y - 0.6 r or passes the containment test of the shrunk
\* ellipse (with half a percent of slack for the rounding of the model).
C11_ContainedAfterStep ==
    ev.op = "loop" =>
        \A i \in 1 .. Len(cookies) :
            AboveRim(cookies[i]) \/ ShrunkS2(cookies[i]) <= 1005000

\* C12 (as claimed): after a step the centres of every two bodies, awake or
\* asleep, are at least the sum of the radii apart, less a tolerance of one
\* pixel.
C12_NoOverlapAfterStep ==
    ev.op = "loop" =>
        \A i, j \in 1 .. Len(cookies) :
            i < j =>
                Dist2(cookies[i], cookies[j]) >=
                    (cookies[i].r + cookies[j].r - 10) * (cookies[i].r + cookies[j].r - 10)

\* The condition of the sleep update on a body as a frame leaves it.
Resting(c) == Hypot(c.vx, c.vy) < SLEEP_SPEED /\ c.y > rim_y + c.r

\* The overlap of two bodies, 0 when they are apart.
Overlap(a, b) ==
    IF Dist2(a, b) >= (a.r + b.r) * (a.r + b.r) THEN 0
    ELSE a.r + b.r - (ISqrt(Dist2(a, b) * 4096) + 32) \div 64

\* The bodies i and j as the pair passes of the next substep meet them first.
Met(i) == Integrate(cookies[i], (MAX_DT * 1000) \div SUBSTEPS, (sim_t + MAX_DT) % WobblePeriod)

\* C13: a body goes from awake to asleep only in a frame, from a rest counter
\* of SLEEP_FRAMES - 1 that the frame's sleep update takes to SLEEP_FRAMES
\* with the body at rest; a frame whose sleep update finds an awake body not
\* resting leaves its counter at 0, and otherwise advances it by one (from 0
\* when a contact reset it in the frame); a shake wakes every body with
\* counter 0; a pair contact with overlap above the disturbance threshold
\* leaves both bodies awake with counter 0; the counter of an awake body is
\* in 0 .. SLEEP_FRAMES - 1.
C13_SleepOnlyByCounter ==
    [][ /\ \A i \in 1 .. Len(cookies') :
              ~cookies'[i].asleep => cookies'[i].sleep_counter \in 0 .. SLEEP_FRAMES - 1
        /\ \A i \in 1 .. Min(Len(cookies), Len(cookies')) :
              ~cookies[i].asleep /\ cookies'[i].asleep =>
                  /\ ev'.op = "loop"
                  /\ cookies[i].sleep_counter = SLEEP_FRAMES - 1
                  /\ cookies'[i].sleep_counter = SLEEP_FRAMES
                  /\ cookies'[i].y > rim_y + cookies'[i].r
        /\ ev'.op = "loop" =>
              \A i \in 1 .. Min(Len(cookies), Len(cookies')) :
                  ~cookies'[i].asleep =>
                      IF Resting(cookies'[i])
                      THEN cookies'[i].sleep_counter \in {1, cookies[i].sleep_counter + 1}
                      ELSE cookies'[i].sleep_counter = 0
        /\ ev'.op = "shake" =>
              \A i \in 1 .. Len(cookies') :
                  ~cookies'[i].asleep /\ cookies'[i].sleep_counter = 0
        /\ \A i, j \in 1 .. Len(cookies) :
              i < j /\ Overlap(Met(i), Met(j)) > DISTURB_OVERLAP =>
                  LET res == resolve_circle_collision(Met(i), Met(j), 0)
                  IN  /\ ~res[1].asleep /\ res[1].sleep_counter = 0
                      /\ ~res[2].asleep /\ res[2].sleep_counter = 0
      ]_vars

\* A frame has left one body asleep at SLEEP_FRAMES and another awake part of
\* the way there, and the awake one is about to disturb the sleeper.
C13_Witness ==
    /\ ev.op = "loop"
    /\ \E i, j \in 1 .. Len(cookies) :
          /\ cookies[i].asleep
          /\ cookies[i].sleep_counter = SLEEP_FRAMES
          /\ ~cookies[j].asleep
          /\ Overlap(Met(i), Met(j)) > DISTURB_OVERLAP

\* C14 (as claimed): with the periodic poll and a manual sync running side
\* by side on a feed that only grows, whatever the interleaving of their
\* scans and commits, no identifier has more than one spawn request enqueued
\* for it in total, and a commit enqueues a request only for an identifier
\* that no committed poll has recorded yet.
C14_ConcurrentPollsEnqueueOnce ==
    [][ev'.op = "commit" =>
          \A i \in Ids :
              obs.enq'[i] > obs.enq[i] =>
                  /\ obs.enq'[i] = 1
                  /\ i \notin def_last_ids]_vars

\* The distance between two centres.
Gap(a, b) == ISqrt(Dist2(a, b))

\* n is within tol of m.
Near(n, m, tol) == n >= m - tol /\ n <= m + tol

\* C15: _resolve_circle_collision on an overlapping pair as a substep meets
\* it: with exactly one body asleep the sleeper stays where it is and the
\* awake body is moved by the whole overlap along the normal; with neither
\* or both asleep the bodies are moved by half the overlap each, in opposite
\* directions.  Either way the centres end r_a + r_b apart.  Lengths are
\* compared to 0.5 px.
C15_SeparationByOverlap ==
    \A i, j \in 1 .. Len(cookies) :
        i < j /\ Overlap(Met(i), Met(j)) > 0 =>
            LET a == Met(i)
                b == Met(j)
                ov == Overlap(a, b)
                res == resolve_circle_collision(a, b, 0)
            IN  /\ Near(Gap(res[1], res[2]), a.r + b.r, 5)
                /\ IF a.asleep /\ ~b.asleep
                   THEN /\ res[1].x = a.x /\ res[1].y = a.y
                        /\ Near(Gap(b, res[2]), ov, 5)
                   ELSE IF b.asleep /\ ~a.asleep
                   THEN /\ res[2].x = b.x /\ res[2].y = b.y
                        /\ Near(Gap(a, res[1]), ov, 5)
                   ELSE /\ res[1].x - a.x = b.x - res[2].x
                        /\ res[1].y - a.y = b.y - res[2].y
                        /\ Near(Gap(a, res[1]), ov \div 2, 5)
                        /\ Near(Gap(b, res[2]), ov \div 2, 5)

\* A frame has left a sleeper and an awake body that the next substep finds
\* overlapping, the awake one listed first.
C15_Witness ==
    /\ ev.op = "loop"
    /\ \E i, j \in 1 .. Len(cookies) :
          /\ i < j
          /\ cookies[j].asleep
          /\ ~cookies[i].asleep
          /\ Overlap(Met(i), Met(j)) > 0

\* C16 (as claimed): a body that is asleep before a frame and asleep after
\* it has the position and the velocity it had before the frame.
C16_SleeperInert ==
    [][ev'.op = "loop" =>
          \A i \in 1 .. Min(Len(cookies), Len(cookies')) :
              cookies[i].asleep /\ cookies'[i].asleep =>
                  /\ cookies'[i].x = cookies[i].x
                  /\ cookies'[i].y = cookies[i].y
                  /\ cookies'[i].vx = cookies[i].vx
                  /\ cookies'[i].vy = cookies[i].vy]_vars

\* C17 (as claimed): for the position x and the radius r of every body the
\* program holds, opening_clamp_x(x, r) lies in the interval from
\* rim_left + r + OPENING_MARGIN to rim_right - r - OPENING_MARGIN.
C17_ClampInsideOpening ==
    \A i \in 1 .. Len(cookies) :
        LET v == opening_clamp_x(cookies[i].x, cookies[i].r)
        IN  /\ v >= rim_left + cookies[i].r + OPENING_MARGIN
            /\ v <= rim_right - cookies[i].r - OPENING_MARGIN

\* The requests enqueued so far, and those removed from the queue so far.
Enqueued == obs.enq["A"] + obs.enq["B"] + obs.enq["C"] + obs.enq["D"]
Removed == Enqueued - Len(def_pending)

\* The frames a queue of n requests needs: ceil(n / MAX_DROPS_PER_TICK).
FramesFor(n) == (n + MAX_DROPS_PER_TICK - 1) \div MAX_DROPS_PER_TICK

\* C18: with the feed auto-drop on, frames running and no clear(): a frame
\* removes the first min(n, MAX_DROPS_PER_TICK) requests of a queue of n and
\* passes them to spawn_cookie in queue order (the new bodies carry their
\* colours in that order), so the frames the queue still needs go down by
\* one with every frame and a queue of n is empty after ceil(n / 6) frames
\* when nothing is enqueued meanwhile; and the m-th request enqueued is
\* eventually removed, for every m.
C18_QueueDrainsInOrder ==
    /\ [][ev'.op = "loop" =>
            LET n == Len(def_pending)
                nd == Min(n, MAX_DROPS_PER_TICK)
            IN  /\ def_pending' = SubSeq(def_pending, nd + 1, n)
                /\ FramesFor(Len(def_pending')) = Max(0, FramesFor(n) - 1)
                /\ Len(cookies') = Len(cookies) + nd
                /\ \A k \in 1 .. nd :
                      cookies'[Len(cookies) + k].color_name = def_pending[k]]_vars
    /\ \A m \in 1 .. 4 * MaxDrainPolls : (Enqueued >= m) ~> (Removed >= m)

\* Eight requests were enqueued by two commits and two frames have emptied
\* the queue into eight bodies.
C18_Witness ==
    /\ ev.op = "loop"
    /\ obs.frames = 2
    /\ Enqueued = 8
    /\ def_pending = <<>>
    /\ Len(cookies) = 8
====
